---- MODULE Spec2Model ----
(***************************************************************************)
(* scripts/refresh_abi_map.py: scan the *.json files of the working        *)
(* directory, and for every entry of kind "function" in a file's "abi"     *)
(* sequence print one line pairing the 4-byte selector with the signature. *)
(*                                                                         *)
(* Text is modelled as a sequence of one-character strings, so that        *)
(* joining, prefixing and hex encoding are computed and not assumed.       *)
(* A JSON object is a function from its keys to its values; a key the      *)
(* object lacks is outside its DOMAIN.                                     *)
(***************************************************************************)
EXTENDS Integers, Sequences, FiniteSets, TLC

VARIABLES
    pc,         \* position of the script
    matches,    \* number of paths glob.glob('*.json') returned
    fileIdx,    \* index of file_path in the for loop (1..matches)
    handles,    \* indexes of the files whose handle is open
    fs,         \* what each file opened so far turned out to hold
    json_data,  \* value bound by json.load
    entryIdx,   \* number of entries of json_data["abi"] already iterated
    exc,        \* the exception that is propagating, or "none"
    out         \* lines printed on standard output

vars == <<pc, matches, fileIdx, handles, fs, json_data, entryIdx, exc, out>>

----------------------------------------------------------------------------
(* Bounds of the model. *)

MaxFiles == 2       \* paths glob returns
MaxEntries == 3     \* entries over all the files of one run

----------------------------------------------------------------------------
(* Text helpers. *)

RECURSIVE Concat(_)
Concat(ss) == IF ss = <<>> THEN <<>> ELSE Head(ss) \o Concat(Tail(ss))

\* sep.join(parts)
RECURSIVE Join(_, _)
Join(sep, parts) ==
    IF parts = <<>> THEN <<>>
    ELSE IF Len(parts) = 1 THEN parts[1]
    ELSE parts[1] \o sep \o Join(sep, Tail(parts))

\* text.replace(" ", "")
RECURSIVE StripSpaces(_)
StripSpaces(text) ==
    IF text = <<>> THEN <<>>
    ELSE IF Head(text) = " " THEN StripSpaces(Tail(text))
    ELSE <<Head(text)>> \o StripSpaces(Tail(text))

StartsWith(text, prefix) ==
    /\ Len(text) >= Len(prefix)
    /\ SubSeq(text, 1, Len(prefix)) = prefix

HexDigits == <<"0", "1", "2", "3", "4", "5", "6", "7", "8", "9", "a", "b", "c", "d", "e", "f">>

\* bytes.hex(): two lower-case digits per byte, no prefix
RECURSIVE Hex(_)
Hex(bytes) ==
    IF bytes = <<>> THEN <<>>
    ELSE <<HexDigits[(Head(bytes) \div 16) + 1], HexDigits[(Head(bytes) % 16) + 1]>>
         \o Hex(Tail(bytes))

----------------------------------------------------------------------------
(* eth_utils: function_abi_to_4byte_selector and what it calls.            *)

Alphabet == <<" ", "(", ")", ",", "0", "1", "2", "3", "4", "5", "6", "7", "8", "9", "[", "]", "a", "b", "c", "d", "e", "f", "g", "h", "i", "j", "k", "l", "m", "n", "o", "p", "q", "r", "s", "t", "u", "v", "w", "x", "y", "z">>

Ord(c) == IF \E i \in DOMAIN Alphabet : Alphabet[i] = c
          THEN CHOOSE i \in DOMAIN Alphabet : Alphabet[i] = c
          ELSE 0

RECURSIVE Mix(_, _)
Mix(h, text) ==
    IF text = <<>> THEN h
    ELSE Mix((h * 31 + Ord(Head(text)) + 1) % 65521, Tail(text))

\* keccak(text=...): the 32-byte Keccak-256 digest.  The digests of the
\* signature texts the modelled inputs produce are the real ones; any other
\* text gets a 32-byte value computed from its characters.
keccak(text) ==
    CASE
        text = <<"t", "r", "a", "n", "s", "f", "e", "r", "(", "a", "d", "d", "r", "e", "s", "s", ",", "u", "i", "n", "t", "2", "5", "6", ")">> ->
         <<169, 5, 156, 187, 42, 176, 158, 178, 25, 88, 63, 74, 89, 165, 208, 98, 58, 222, 52, 109, 150, 43, 205, 78, 70, 177, 29, 160, 71, 201, 4, 155>>
     [] text = <<"f", "(", ")">> ->
         <<38, 18, 31, 240, 37, 166, 186, 64, 207, 39, 188, 251, 124, 213, 11, 203, 142, 171, 100, 136, 24, 38, 175, 55, 96, 86, 76, 158, 31, 250, 113, 235>>
     [] text = <<"f", "(", "(", "a", "d", "d", "r", "e", "s", "s", ")", ")">> ->
         <<129, 125, 199, 116, 238, 195, 47, 3, 240, 157, 126, 246, 95, 63, 162, 186, 169, 58, 254, 143, 224, 110, 179, 103, 5, 155, 131, 140, 52, 110, 45, 27>>
     [] text = <<"f", "(", "(", "u", "i", "n", "t", "2", "5", "6", ")", ")">> ->
         <<63, 192, 62, 235, 209, 241, 244, 122, 241, 217, 117, 22, 209, 160, 136, 125, 205, 229, 46, 43, 111, 122, 108, 239, 53, 169, 160, 67, 49, 7, 141, 186>>
     [] OTHER ->
         [i \in 1..32 |-> ((Mix(7, text) + i) * (2 * i + 1)) % 256]

TupleWord == <<"t", "u", "p", "l", "e">>

\* collapse_if_tuple raises KeyError: the parameter has no "type", or it is
\* a tuple without "components", or a component raises
RECURSIVE collapse_raises(_)
collapse_raises(abi) ==
    \/ "type" \notin DOMAIN abi
    \/ /\ StartsWith(abi.type, TupleWord)
       /\ \/ "components" \notin DOMAIN abi
          \/ \E i \in 1..Len(abi.components) : collapse_raises(abi.components[i])

\* collapse_if_tuple: a tuple type is replaced by the parenthesised list of
\* its components' collapsed types, followed by its array suffix
RECURSIVE collapse_if_tuple(_)
collapse_if_tuple(abi) ==
    IF ~StartsWith(abi.type, TupleWord) THEN abi.type
    ELSE <<"(">>
         \o Join(<<",">>, [i \in 1..Len(abi.components) |->
                              collapse_if_tuple(abi.components[i])])
         \o <<")">>
         \o SubSeq(abi.type, Len(TupleWord) + 1, Len(abi.type))

\* abi.get("inputs", [])
GetInputs(abi) == IF "inputs" \in DOMAIN abi THEN abi.inputs ELSE <<>>

\* _abi_to_signature: name(type1,type2,...)
abi_to_signature(abi) ==
    abi.name
    \o <<"(">>
    \o Join(<<",">>, [i \in 1..Len(GetInputs(abi)) |->
                         collapse_if_tuple(GetInputs(abi)[i])])
    \o <<")">>

function_signature_to_4byte_selector(signature) ==
    SubSeq(keccak(StripSpaces(signature)), 1, 4)

selector_raises(abi) ==
    \/ "name" \notin DOMAIN abi
    \/ \E i \in 1..Len(GetInputs(abi)) : collapse_raises(GetInputs(abi)[i])

function_abi_to_4byte_selector(abi) ==
    function_signature_to_4byte_selector(abi_to_signature(abi))

----------------------------------------------------------------------------
(* The script's loop body, lines 12-21. *)

\* variant: the selector is encoded with a 0x prefix of its own
function_signature_Prefixed(function_abi) ==
    <<"0", "x">> \o Hex(function_abi_to_4byte_selector(function_abi))

\* line 13: function_abi_to_4byte_selector(function_abi).hex()
function_signature(function_abi) == Hex(function_abi_to_4byte_selector(function_abi))

\* line 15: function_abi.get('inputs', [])
inputs(function_abi) ==
    IF "inputs" \in DOMAIN function_abi THEN function_abi.inputs ELSE <<>>

\* line 16 raises KeyError when a parameter has no 'type'
arg_types_raises(function_abi) ==
    \E i \in 1..Len(inputs(function_abi)) : "type" \notin DOMAIN inputs(function_abi)[i]

\* variant: a parameter's internalType is taken when it has one
arg_types_Internal(function_abi) ==
    [i \in 1..Len(inputs(function_abi)) |->
        IF "internalType" \in DOMAIN inputs(function_abi)[i]
        THEN inputs(function_abi)[i].internalType
        ELSE inputs(function_abi)[i].type]

\* line 16: [input_data['type'] for input_data in inputs]
arg_types(function_abi) ==
    [i \in 1..Len(inputs(function_abi)) |-> inputs(function_abi)[i].type]

\* variant: the types are joined by a comma alone
arg_string_NoSpace(function_abi) == Join(<<",">>, arg_types(function_abi))

\* line 17: ', '.join(arg_types)
arg_string(function_abi) == Join(<<",", " ">>, arg_types(function_abi))

\* variant: the f-string pads the parameter list with spaces
Line_Padded(function_abi) ==
    <<"[", "\"", "0", "x">>
    \o function_signature(function_abi)
    \o <<"\"", ",", " ", "\"">>
    \o function_abi.name
    \o <<"(", " ">>
    \o arg_string(function_abi)
    \o <<" ", ")", "\"", "]", ",">>

\* lines 19-21: the f-string handed to print
Line(function_abi) ==
    <<"[", "\"", "0", "x">>
    \o function_signature(function_abi)
    \o <<"\"", ",", " ", "\"">>
    \o function_abi.name
    \o <<"(">>
    \o arg_string(function_abi)
    \o <<")", "\"", "]", ",">>

\* the loop body raises before it prints
body_raises(function_abi) ==
    \/ "type" \notin DOMAIN function_abi
    \/ /\ function_abi.type = "function"
       /\ \/ "name" \notin DOMAIN function_abi
          \/ selector_raises(function_abi)
          \/ arg_types_raises(function_abi)

----------------------------------------------------------------------------
(* The inputs: what the files of the working directory may hold. *)

Address == <<"a", "d", "d", "r", "e", "s", "s">>
Uint256 == <<"u", "i", "n", "t", "2", "5", "6">>
Transfer == <<"t", "r", "a", "n", "s", "f", "e", "r">>

\* transfer(address to, uint256 amount)
eTransfer ==
    [type |-> "function", name |-> Transfer, stateMutability |-> "nonpayable",
     inputs |-> << [name |-> <<"t", "o">>, type |-> Address],
                   [name |-> <<"a", "m", "o", "u", "n", "t">>, type |-> Uint256] >>]

\* the same name and parameter types, every other field different or absent
eTransferBare ==
    [type |-> "function", name |-> Transfer,
     inputs |-> << [type |-> Address], [type |-> Uint256, internalType |-> <<"u", "i", "n", "t">>] >>]

\* f()
eNoArgs == [type |-> "function", name |-> <<"f">>, inputs |-> <<>>]

\* f, with no "inputs" field
eNoInputs == [type |-> "function", name |-> <<"f">>]

\* f(tuple) with one component of type address / uint256
eTupleAddress ==
    [type |-> "function", name |-> <<"f">>,
     inputs |-> << [type |-> TupleWord, components |-> << [type |-> Address] >>] >>]

eTupleUint ==
    [type |-> "function", name |-> <<"f">>,
     inputs |-> << [type |-> TupleWord, components |-> << [type |-> Uint256] >>] >>]

\* entries of another kind: an event with nothing but its kind, and a
\* constructor with parameters and no name
eEvent == [type |-> "event"]

eConstructor == [type |-> "constructor", inputs |-> << [type |-> Address] >>]

\* entries lacking a field
eNoType == [name |-> <<"f">>, inputs |-> <<>>]

eNoName == [type |-> "function", inputs |-> <<>>]

eParamNoType == [type |-> "function", name |-> <<"f">>, inputs |-> << [name |-> <<"x">>] >>]

Entries ==
    {eTransfer, eTransferBare, eNoArgs, eNoInputs, eTupleAddress, eTupleUint,
     eEvent, eConstructor, eNoType, eNoName, eParamNoType}

RECURSIVE SeqsUpTo(_, _)
SeqsUpTo(S, n) ==
    IF n = 0 THEN {<<>>}
    ELSE LET shorter == SeqsUpTo(S, n - 1)
         IN  shorter \cup {Append(s, x) : s \in {t \in shorter : Len(t) = n - 1}, x \in S}

\* number of entries in the documents loaded so far
RECURSIVE EntriesLoaded(_)
EntriesLoaded(files) ==
    IF files = <<>> THEN 0
    ELSE (IF Head(files).kind = "json" /\ "abi" \in DOMAIN Head(files).value
          THEN Len(Head(files).value.abi) ELSE 0)
         + EntriesLoaded(Tail(files))

\* what a file that could be opened may hold
Contents(budget) ==
    {[kind |-> "unparseable"]}
    \cup {[kind |-> "json", value |-> [bytecode |-> <<"0", "x">>]]}
    \cup {[kind |-> "json", value |-> [abi |-> s]] : s \in SeqsUpTo(Entries, budget)}

Unbound == [unbound |-> TRUE]

----------------------------------------------------------------------------
(* The script. *)

Init ==
    /\ pc = "glob"
    /\ matches = 0
    /\ fileIdx = 0
    /\ handles = {}
    /\ fs = <<>>
    /\ json_data = Unbound
    /\ entryIdx = 0
    /\ exc = "none"
    /\ out = <<>>

\* line 5: glob.glob('*.json')
Glob ==
    /\ pc = "glob"
    /\ \E n \in 0..MaxFiles : matches' = n
    /\ pc' = "for"
    /\ UNCHANGED <<fileIdx, handles, fs, json_data, entryIdx, exc, out>>

\* variant: the loop body runs once more than there are paths
ForFile_OffByOne ==
    /\ pc = "for"
    /\ IF fileIdx <= matches
       THEN /\ fileIdx' = fileIdx + 1
            /\ pc' = "open"
       ELSE /\ fileIdx' = fileIdx
            /\ pc' = "done"
    /\ UNCHANGED <<matches, handles, fs, json_data, entryIdx, exc, out>>

\* line 5: the for loop takes the next path, or ends the script
ForFile ==
    /\ pc = "for"
    /\ IF fileIdx < matches
       THEN /\ fileIdx' = fileIdx + 1
            /\ pc' = "open"
       ELSE /\ fileIdx' = fileIdx
            /\ pc' = "done"
    /\ UNCHANGED <<matches, handles, fs, json_data, entryIdx, exc, out>>

\* line 6: open(file_path, 'r') returns a handle or raises OSError
Open ==
    /\ pc = "open"
    /\ \/ /\ handles' = handles \cup {fileIdx}
          /\ pc' = "load"
          /\ UNCHANGED <<fs, exc>>
       \/ /\ fs' = Append(fs, [kind |-> "unreadable"])
          /\ exc' = "OSError"
          /\ pc' = "failed"
          /\ UNCHANGED handles
    /\ UNCHANGED <<matches, fileIdx, json_data, entryIdx, out>>

\* line 7: json.load(file) binds json_data or raises inside the with block
JsonLoad ==
    /\ pc = "load"
    /\ \E content \in Contents(MaxEntries - EntriesLoaded(fs)) :
          /\ fs' = Append(fs, content)
          /\ IF content.kind = "json"
             THEN /\ json_data' = content.value
                  /\ exc' = exc
             ELSE /\ json_data' = json_data
                  /\ exc' = "JSONDecodeError"
    /\ pc' = "exit"
    /\ UNCHANGED <<matches, fileIdx, handles, entryIdx, out>>

\* variant: the file is closed by a call after json.load, which an
\* exception skips
WithExit_NoFinally ==
    /\ pc = "exit"
    /\ handles' = IF exc = "none" THEN handles \ {fileIdx} ELSE handles
    /\ pc' = IF exc = "none" THEN "abi" ELSE "failed"
    /\ UNCHANGED <<matches, fileIdx, fs, json_data, entryIdx, exc, out>>

\* lines 6-7: leaving the with block closes the file, then the exception
\* raised inside it, if any, goes on propagating
WithExit ==
    /\ pc = "exit"
    /\ handles' = handles \ {fileIdx}
    /\ pc' = IF exc = "none" THEN "abi" ELSE "failed"
    /\ UNCHANGED <<matches, fileIdx, fs, json_data, entryIdx, exc, out>>

\* variant: json_data.get("abi", []), a document without "abi" is skipped
AbiLookup_Default ==
    /\ pc = "abi"
    /\ IF "abi" \in DOMAIN json_data
       THEN /\ pc' = "entries"
            /\ entryIdx' = 0
       ELSE /\ pc' = "for"
            /\ entryIdx' = entryIdx
    /\ UNCHANGED <<matches, fileIdx, handles, fs, json_data, exc, out>>

\* line 9: json_data["abi"]
AbiLookup ==
    /\ pc = "abi"
    /\ IF "abi" \in DOMAIN json_data
       THEN /\ pc' = "entries"
            /\ entryIdx' = 0
            /\ exc' = exc
       ELSE /\ pc' = "failed"
            /\ entryIdx' = entryIdx
            /\ exc' = "KeyError"
    /\ UNCHANGED <<matches, fileIdx, handles, fs, json_data, out>>

\* variant: a line already printed is not printed again
ProcessEntry_Dedup ==
    /\ pc = "entries"
    /\ entryIdx < Len(json_data.abi)
    /\ LET function_abi == json_data.abi[entryIdx + 1]
       IN  IF body_raises(function_abi)
           THEN /\ pc' = "failed"
                /\ exc' = "KeyError"
                /\ UNCHANGED <<entryIdx, out>>
           ELSE /\ entryIdx' = entryIdx + 1
                /\ out' = IF function_abi.type # "function" THEN out
                          ELSE IF \E i \in 1..Len(out) : out[i] = Line(function_abi)
                          THEN out
                          ELSE Append(out, Line(function_abi))
                /\ UNCHANGED <<pc, exc>>
    /\ UNCHANGED <<matches, fileIdx, handles, fs, json_data>>

\* variant: an entry of another kind ends the loop (break for continue)
ProcessEntry_Break ==
    /\ pc = "entries"
    /\ entryIdx < Len(json_data.abi)
    /\ LET function_abi == json_data.abi[entryIdx + 1]
       IN  IF body_raises(function_abi)
           THEN /\ pc' = "failed"
                /\ exc' = "KeyError"
                /\ UNCHANGED <<entryIdx, out>>
           ELSE IF function_abi.type # "function"
           THEN /\ pc' = "for"
                /\ UNCHANGED <<entryIdx, exc, out>>
           ELSE /\ entryIdx' = entryIdx + 1
                /\ out' = Append(out, Line(function_abi))
                /\ UNCHANGED <<pc, exc>>
    /\ UNCHANGED <<matches, fileIdx, handles, fs, json_data>>

\* variant: an entry that raises is skipped
ProcessEntry_Swallow ==
    /\ pc = "entries"
    /\ entryIdx < Len(json_data.abi)
    /\ LET function_abi == json_data.abi[entryIdx + 1]
       IN  /\ entryIdx' = entryIdx + 1
           /\ out' = IF body_raises(function_abi) \/ function_abi.type # "function"
                     THEN out
                     ELSE Append(out, Line(function_abi))
           /\ UNCHANGED <<pc, exc>>
    /\ UNCHANGED <<matches, fileIdx, handles, fs, json_data>>

\* lines 9-21: one iteration of the loop over the entries
ProcessEntry ==
    /\ pc = "entries"
    /\ entryIdx < Len(json_data.abi)
    /\ LET function_abi == json_data.abi[entryIdx + 1]
       IN  IF body_raises(function_abi)
           THEN /\ pc' = "failed"
                /\ exc' = "KeyError"
                /\ UNCHANGED <<entryIdx, out>>
           ELSE /\ entryIdx' = entryIdx + 1
                /\ out' = IF function_abi.type # "function" THEN out
                          ELSE Append(out, Line(function_abi))
                /\ UNCHANGED <<pc, exc>>
    /\ UNCHANGED <<matches, fileIdx, handles, fs, json_data>>

\* line 9: the entries are exhausted
EntriesDone ==
    /\ pc = "entries"
    /\ entryIdx = Len(json_data.abi)
    /\ pc' = "for"
    /\ UNCHANGED <<matches, fileIdx, handles, fs, json_data, entryIdx, exc, out>>

Next ==
    \/ Glob
    \/ ForFile
    \/ Open
    \/ JsonLoad
    \/ WithExit
    \/ AbiLookup
    \/ ProcessEntry
    \/ EntriesDone

Spec == Init /\ [][Next]_vars

----------------------------------------------------------------------------
TypeOK ==
    /\ pc \in {"glob", "for", "open", "load", "exit", "abi", "entries", "done", "failed"}
    /\ matches \in 0..MaxFiles
    /\ fileIdx \in 0..matches
    /\ handles \subseteq 1..MaxFiles
    /\ entryIdx \in 0..MaxEntries
    /\ Len(fs) <= fileIdx
----------------------------------------------------------------------------
(* Vocabulary of the properties. *)

HasAbi(f) == f.kind = "json" /\ "abi" \in DOMAIN f.value

AbiOf(f) == IF HasAbi(f) THEN f.value.abi ELSE <<>>

BadFile(f) == ~HasAbi(f)

IsFunction(e) == "type" \in DOMAIN e /\ e.type = "function"

IsOtherKind(e) == "type" \in DOMAIN e /\ e.type # "function"

RECURSIVE Flatten(_)
Flatten(files) ==
    IF files = <<>> THEN <<>> ELSE AbiOf(Head(files)) \o Flatten(Tail(files))

\* the entries of every file opened so far, in discovery and "abi" order
AllEntries == Flatten(fs)

\* number of entries of the file read last whose iteration has completed
CurDone ==
    IF fs = <<>> \/ pc \in {"exit", "abi"} THEN 0
    ELSE IF HasAbi(fs[Len(fs)]) THEN entryIdx ELSE 0

\* the entries whose iteration has completed, in order
Iterated ==
    IF fs = <<>> THEN <<>>
    ELSE Flatten(SubSeq(fs, 1, Len(fs) - 1))
         \o SubSeq(AbiOf(fs[Len(fs)]), 1, CurDone)

Functions(entries) == SelectSeq(entries, IsFunction)

\* the declared type texts of an entry's parameters, in order
TypeTexts(e) ==
    IF "inputs" \in DOMAIN e THEN [i \in 1..Len(e.inputs) |-> e.inputs[i].type] ELSE <<>>

RECURSIVE CommaSpaceList(_)
CommaSpaceList(types) ==
    IF Len(types) = 0 THEN <<>>
    ELSE IF Len(types) = 1 THEN types[1]
    ELSE types[1] \o <<",", " ">> \o CommaSpaceList(Tail(types))

\* name(type1, type2, ...)
PrintedSignature(e) == Concat(<<e.name, <<"(">>, CommaSpaceList(TypeTexts(e)), <<")">>>>)

LineOpen == <<"[", "\"", "0", "x">>
LineMid == <<"\"", ",", " ", "\"">>
LineClose == <<"\"", "]", ",">>

IsHex(text) == \A i \in 1..Len(text) : \E d \in 1..16 : HexDigits[d] = text[i]

\* the selector field and the signature field of a printed line
SelectorField(line) == SubSeq(line, Len(LineOpen) + 1, Len(LineOpen) + 8)
SignatureField(line) ==
    SubSeq(line, Len(LineOpen) + 8 + Len(LineMid) + 1, Len(line) - Len(LineClose))

\* out holds one line per function entry iterated so far
OneLineEach == Len(out) = Len(Functions(Iterated))

----------------------------------------------------------------------------
\* C1: a run that completes has opened every file glob found and has
\* printed exactly one line per function entry of those files and no other
\* line, in discovery order and, within a file, in "abi" order: the i-th
\* line carries the signature of the i-th function entry.
C1_OneLinePerFunctionInOrder ==
    pc = "done" =>
        LET fe == Functions(AllEntries)
        IN  /\ Len(fs) = matches
            /\ Len(out) = Len(fe)
            /\ \A i \in 1..Len(fe) : SignatureField(out[i]) = PrintedSignature(fe[i])

\* two files, three function entries, one of them printed twice over, and
\* the lines differ from file to file
C1_Witness ==
    /\ pc = "done"
    /\ matches = 2
    /\ Len(out) = 3
    /\ out[1] = out[3]
    /\ out[1] # out[2]
    /\ Len(AbiOf(fs[1])) = 1

\* C2: iterating an entry whose kind is not "function" prints nothing and
\* raises nothing, whatever other fields the entry has or lacks: the loop
\* goes on to the next entry with the output as it was.
C2_OtherKindsPrintNothing ==
    [][(/\ pc = "entries"
        /\ entryIdx < Len(json_data.abi)
        /\ IsOtherKind(json_data.abi[entryIdx + 1]))
       => (/\ out' = out
           /\ pc' = "entries"
           /\ entryIdx' = entryIdx + 1
           /\ exc' = "none")]_vars

\* an event without a name stood between two function entries of one file
C2_Witness ==
    /\ pc = "done"
    /\ Len(fs) = 1
    /\ Len(AllEntries) = 3
    /\ IsFunction(AllEntries[1])
    /\ AllEntries[2] = eEvent
    /\ IsFunction(AllEntries[3])
    /\ Len(out) = 2
TransferCanonical == <<"t", "r", "a", "n", "s", "f", "e", "r", "(", "a", "d", "d", "r", "e", "s", "s", ",", "u", "i", "n", "t", "2", "5", "6", ")">>
TransferPrinted == <<"t", "r", "a", "n", "s", "f", "e", "r", "(", "a", "d", "d", "r", "e", "s", "s", ",", " ", "u", "i", "n", "t", "2", "5", "6", ")">>

\* the run read one document whose only function entry is transfer with
\* parameters of types address and uint256, and completed
OnlyTransfer ==
    /\ pc = "done"
    /\ matches = 1
    /\ Len(Functions(AllEntries)) = 1
    /\ Functions(AllEntries)[1].name = Transfer
    /\ TypeTexts(Functions(AllEntries)[1]) = <<Address, Uint256>>

SelectorOf(text) == Hex(SubSeq(keccak(text), 1, 4))

\* C3 as stated: the line is the selector of transfer(address,uint256)
\* followed by that same text.
C3_Original ==
    OnlyTransfer =>
        out = << Concat(<<LineOpen, SelectorOf(TransferCanonical), LineMid,
                          TransferCanonical, LineClose>>) >>

\* C3 (amended): the line is the selector of transfer(address,uint256)
\* followed by the signature transfer(address, uint256), whose types are
\* separated by a comma and a space: the printed text differs from the text
\* the selector was derived from by that space.
C3_SelectorOfCanonicalThenPrinted ==
    OnlyTransfer =>
        out = << Concat(<<LineOpen, SelectorOf(TransferCanonical), LineMid,
                          TransferPrinted, LineClose>>) >>

C3_Witness ==
    /\ OnlyTransfer
    /\ Len(AllEntries) = 1
    /\ Len(out) = 1
    /\ SelectorField(out[1]) = <<"a", "9", "0", "5", "9", "c", "b", "b">>

\* C4: the line of a function entry whose parameter sequence is empty is
\* the selector of name() followed by the signature name(), with nothing
\* between the parentheses.
C4_NoParametersEmptyParens ==
    LET fe == Functions(Iterated)
    IN  \A i \in 1..Len(fe) :
            ("inputs" \in DOMAIN fe[i] /\ fe[i].inputs = <<>>) =>
                /\ i <= Len(out)
                /\ out[i] = Concat(<<LineOpen,
                                     SelectorOf(fe[i].name \o <<"(", ")">>),
                                     LineMid,
                                     fe[i].name \o <<"(", ")">>,
                                     LineClose>>)

C4_Witness ==
    /\ Len(Iterated) = 2
    /\ Iterated[2] = eNoArgs
    /\ Len(out) = 2
    /\ SignatureField(out[2]) = <<"f", "(", ")">>

\* C5: when glob finds no file, the script ends normally, having opened
\* nothing and printed nothing, with no exception raised.
C5_NoFilesNoOutputNoError ==
    (matches = 0 /\ pc \notin {"glob", "for"}) =>
        /\ pc = "done"
        /\ out = <<>>
        /\ exc = "none"
        /\ fs = <<>>
        /\ handles = {}

C5_Witness == pc = "done" /\ matches = 0 /\ out = <<>>

\* C6: once a file that cannot be opened, cannot be parsed, or holds no
\* "abi" field has been met, the run is failing or failed: that file is the
\* last one ever opened, the script never iterates entries, opens another
\* file or completes, and the output is what the earlier files produced.
C6_BadFileFailsRun ==
    \A i \in 1..Len(fs) :
        BadFile(fs[i]) =>
            /\ i = Len(fs)
            /\ i = fileIdx
            /\ pc \in {"exit", "abi", "failed"}
            /\ (pc = "exit" /\ fs[i].kind # "json" => exc # "none")
            /\ Len(out) = Len(Functions(Flatten(SubSeq(fs, 1, i - 1))))

\* the first of two files was bad and the second was never opened
C6_Witness ==
    /\ pc = "failed"
    /\ matches = 2
    /\ Len(fs) = 1
    /\ BadFile(fs[1])
    /\ out = <<>>

\* an entry the loop body cannot process
Broken(e) ==
    \/ "type" \notin DOMAIN e
    \/ /\ e.type = "function"
       /\ \/ "name" \notin DOMAIN e
          \/ \E i \in 1..Len(inputs(e)) : "type" \notin DOMAIN inputs(e)[i]

\* the same, counting also a function entry without a parameter sequence
BrokenOrNoInputs(e) == Broken(e) \/ "inputs" \notin DOMAIN e

\* the entry at position k of AllEntries stops the run: its iteration never
\* completes, so nothing is printed for it or after it, and it belongs to
\* the last file ever opened
StopsRunAt(k) ==
    /\ Len(Iterated) < k
    /\ pc \in {"exit", "abi", "entries", "failed"}
    /\ Len(AllEntries) - Len(AbiOf(fs[Len(fs)])) < k
    /\ Len(out) <= Len(Functions(SubSeq(AllEntries, 1, k - 1)))

RECURSIVE ExpandedType(_)
ExpandedType(p) ==
    IF StartsWith(p.type, TupleWord) /\ "components" \in DOMAIN p
    THEN <<p.type, [i \in 1..Len(p.components) |-> ExpandedType(p.components[i])]>>
    ELSE <<p.type, <<>>>>

ExpandedTypes(e) ==
    IF "inputs" \in DOMAIN e THEN [i \in 1..Len(e.inputs) |-> ExpandedType(e.inputs[i])]
    ELSE <<>>

\* C8 as stated: two function entries with the same name and the same
\* ordered parameter type texts are printed as the same line.
C8_Original ==
    LET fe == Functions(Iterated)
    IN  \A i, j \in 1..Len(out) :
            (/\ i <= Len(fe)
             /\ j <= Len(fe)
             /\ fe[i].name = fe[j].name
             /\ TypeTexts(fe[i]) = TypeTexts(fe[j]))
            => out[i] = out[j]

\* C8 (amended): two function entries with the same name and the same
\* ordered parameter type texts are printed with the same signature; if in
\* addition their tuple-typed parameters have, recursively, the same
\* component types, they are printed with the same selector, hence as the
\* same line, whatever their other fields.
C8_LineDeterminedByNameAndTypes ==
    LET fe == Functions(Iterated)
    IN  \A i, j \in 1..Len(out) :
            (/\ i <= Len(fe)
             /\ j <= Len(fe)
             /\ fe[i].name = fe[j].name
             /\ TypeTexts(fe[i]) = TypeTexts(fe[j]))
            => /\ SignatureField(out[i]) = SignatureField(out[j])
               /\ ExpandedTypes(fe[i]) = ExpandedTypes(fe[j]) => out[i] = out[j]

\* two entries that differ in other fields only were printed alike
C8_Witness ==
    /\ Len(Iterated) = 2
    /\ Iterated[1] = eTransfer
    /\ Iterated[2] = eTransferBare
    /\ Len(out) = 2
    /\ out[1] = out[2]

\* C9: every line is ["0x, eight hexadecimal digits, ", ", the name, an
\* opening parenthesis, the parameter types in declaration order separated
\* by a comma and a space, a closing parenthesis, and "],
C9_LineFormat ==
    LET fe == Functions(Iterated)
    IN  /\ Len(out) = Len(fe)
        /\ \A i \in 1..Len(out) :
              /\ Len(SelectorField(out[i])) = 8
              /\ IsHex(SelectorField(out[i]))
              /\ out[i] = Concat(<<LineOpen, SelectorField(out[i]), LineMid,
                                   fe[i].name, <<"(">>,
                                   CommaSpaceList(TypeTexts(fe[i])),
                                   <<")">>, LineClose>>)

\* a line with two parameter types and a line with none
C9_Witness ==
    /\ Len(out) = 2
    /\ Len(TypeTexts(Functions(Iterated)[1])) = 2
    /\ Len(TypeTexts(Functions(Iterated)[2])) = 0

\* C10: at most one file is open at any time, it is the file the loop is
\* at, and it is open only between open() and the end of the with block:
\* never while entries are iterated, while the next file is chosen, or
\* after the run has ended, normally or not.
C10_OneHandleReleasedAfterRead ==
    /\ Cardinality(handles) <= 1
    /\ handles \subseteq {fileIdx}
    /\ handles # {} => pc \in {"load", "exit"}
    /\ pc = "exit" => handles = {fileIdx}

\* the second file failed to parse and its handle is closed
C10_Witness ==
    /\ pc = "failed"
    /\ exc = "JSONDecodeError"
    /\ fileIdx = 2
    /\ handles = {}
====
